---- MODULE Spec2Model ----
(***************************************************************************)
(* A model of data_seeder.py: DataSeeder.generate and the recursive row    *)
(* synthesis generate_fake_row_data, with the database the seeder writes   *)
(* to.  The program is sequential; the recursion of generate_fake_row_data *)
(* is an explicit stack of frames, one frame per active call.              *)
(***************************************************************************)
EXTENDS Integers, Sequences, FiniteSets, TLC

VARIABLES
    scenario,           \* which schema the database was reflected with
    number_of_records,  \* self.number_of_records
    exclude_list,       \* self.exclude_list
    pc,                 \* position of generate(): "init", "loop", "done", "error"
    err,                \* the exception that ended the run, "" when none
    todo,               \* list(self.get_model_metadata()), the driver's tables
    ti,                 \* index in todo of the table the driver is at
    iter,               \* iterations of range(number_of_records) completed
    stack,              \* active calls of generate_fake_row_data, innermost last
    db,                 \* committed rows of every table, in commit order
    log,                \* history: every save_model call, in order
    notices,            \* history: the lines printed by generate()
    next_uuid           \* the next value uuid.uuid4() returns

vars == <<scenario, number_of_records, exclude_list, pc, err, todo, ti, iter,
          stack, db, log, notices, next_uuid>>

----------------------------------------------------------------------------
\* Bounds of the model.

\* number_of_records ranges over 1..MaxRecords
MaxRecords == 3
\* fake.random_int() ranges over 0..MaxRandomInt
MaxRandomInt == 1
\* depth of nested generate_fake_row_data calls at which the interpreter
\* raises RecursionError
RecursionLimit == 4

----------------------------------------------------------------------------
\* Values.  Every value is a pair <<kind, n>> so that values of different
\* column types can be compared.

NULL == <<"null", 0>>

RandomInts == 0..MaxRandomInt

Booleans == 0..1

\* Rows (row_data) are functions from the names of the columns that were
\* assigned to values.
EmptyRow == [c \in {} |-> NULL]

Put(row, c, v) == [x \in (DOMAIN row) \cup {c} |-> IF x = c THEN v ELSE row[x]]

Get(row, c) == IF c \in DOMAIN row THEN row[c] ELSE NULL

----------------------------------------------------------------------------
\* Schemas.

Column(name, type, primary_key, foreign_keys) ==
    [name |-> name, type |-> type, primary_key |-> primary_key,
     foreign_keys |-> foreign_keys]

ForeignKey(table, column) == [table |-> table, column |-> column]

\* users: no foreign keys, a unique-identifier primary key and one column of
\* every supported type and one of an unsupported type.
UsersSchema ==
    [tables |-> [t \in {"users"} |->
        << Column("id", "UUID", TRUE, <<>>),
           Column("name", "String", FALSE, <<>>),
           Column("active", "Boolean", FALSE, <<>>),
           Column("age", "Integer", FALSE, <<>>),
           Column("joined", "DateTime", FALSE, <<>>),
           Column("score", "Float", FALSE, <<>>),
           Column("ttl", "Interval", FALSE, <<>>),
           Column("avatar", "Other", FALSE, <<>>) >>],
     reflected |-> {"users"},
     models |-> {"users"}]

\* orders references users; users sorts after orders.
OrdersUsersSchema ==
    [tables |-> [t \in {"orders", "users"} |->
        IF t = "users"
        THEN << Column("id", "UUID", TRUE, <<>>) >>
        ELSE << Column("id", "UUID", TRUE, <<>>),
                Column("user_id", "UUID", FALSE, <<ForeignKey("users", "id")>>) >>],
     reflected |-> {"orders", "users"},
     models |-> {"orders", "users"}]

\* audit_log: an integer primary key.
AuditSchema ==
    [tables |-> [t \in {"audit_log"} |->
        << Column("id", "Integer", TRUE, <<>>),
           Column("flagged", "Boolean", FALSE, <<>>) >>],
     reflected |-> {"audit_log"},
     models |-> {"audit_log"}]

\* orders references customers; customers sorts before orders.
OrdersCustomersSchema ==
    [tables |-> [t \in {"orders", "customers"} |->
        IF t = "customers"
        THEN << Column("id", "UUID", TRUE, <<>>) >>
        ELSE << Column("id", "UUID", TRUE, <<>>),
                Column("customer_id", "UUID", FALSE,
                       <<ForeignKey("customers", "id")>>) >>],
     reflected |-> {"orders", "customers"},
     models |-> {"orders", "customers"}]

\* a chain: orders references customers references accounts.
ChainSchema ==
    [tables |-> [t \in {"orders", "customers", "accounts"} |->
        CASE t = "accounts" -> << Column("id", "UUID", TRUE, <<>>) >>
          [] t = "customers" ->
                << Column("id", "UUID", TRUE, <<>>),
                   Column("account_id", "UUID", FALSE,
                          <<ForeignKey("accounts", "id")>>) >>
          [] t = "orders" ->
                << Column("id", "UUID", TRUE, <<>>),
                   Column("customer_id", "UUID", FALSE,
                          <<ForeignKey("customers", "id")>>) >>],
     reflected |-> {"orders", "customers", "accounts"},
     models |-> {"orders", "customers", "accounts"}]

\* a table with a foreign key to itself.
SelfSchema ==
    [tables |-> [t \in {"node"} |->
        << Column("id", "UUID", TRUE, <<>>),
           Column("parent_id", "UUID", FALSE, <<ForeignKey("node", "id")>>) >>],
     reflected |-> {"node"},
     models |-> {"node"}]

\* two tables that reference each other.
CycleSchema ==
    [tables |-> [t \in {"departments", "employees"} |->
        IF t = "departments"
        THEN << Column("id", "UUID", TRUE, <<>>),
                Column("manager_id", "UUID", FALSE,
                       <<ForeignKey("employees", "id")>>) >>
        ELSE << Column("id", "UUID", TRUE, <<>>),
                Column("department_id", "UUID", FALSE,
                       <<ForeignKey("departments", "id")>>) >>],
     reflected |-> {"departments", "employees"},
     models |-> {"departments", "employees"}]

\* invoices references vendors, and no model class is found for vendors;
\* legacy has a model class and is absent from the live schema.
MissingSchema ==
    [tables |-> [t \in {"invoices", "vendors", "legacy"} |->
        CASE t = "vendors" -> << Column("id", "UUID", TRUE, <<>>) >>
          [] t = "legacy" -> << Column("id", "UUID", TRUE, <<>>) >>
          [] t = "invoices" ->
                << Column("id", "UUID", TRUE, <<>>),
                   Column("vendor_id", "UUID", FALSE,
                          <<ForeignKey("vendors", "id")>>) >>],
     reflected |-> {"invoices", "vendors"},
     models |-> {"invoices", "legacy"}]

Schemas == << UsersSchema, OrdersUsersSchema, AuditSchema, OrdersCustomersSchema,
              ChainSchema, SelfSchema, CycleSchema, MissingSchema >>

\* Base.metadata.sorted_tables, by name
TableNames == DOMAIN Schemas[scenario].tables

\* table.columns
Columns(t) == Schemas[scenario].tables[t]

\* self.metadata.tables, the tables of the reflected live schema
Reflected == Schemas[scenario].reflected

\* the table names, in ascending order of name
NameOrder == << "accounts", "audit_log", "customers", "departments", "employees",
                "invoices", "legacy", "node", "orders", "users", "vendors" >>

Rank(name) == CHOOSE i \in 1..Len(NameOrder) : NameOrder[i] = name

\* sorted(S, key=lambda t: t.name, reverse=True)
RECURSIVE SortedReverse(_)
SortedReverse(S) ==
    IF S = {} THEN <<>>
    ELSE LET m == CHOOSE x \in S : \A y \in S : Rank(y) <= Rank(x)
         IN  <<m>> \o SortedReverse(S \ {m})

----------------------------------------------------------------------------
\* get_model_class: the model class of a table, "None" when no route's models
\* module has one.
GetModelClass(table_name) ==
    IF table_name \in Schemas[scenario].models THEN table_name ELSE "None"

\* get_model_metadata without reverse=True: ascending name order
GetModelMetadata_Ascending ==
    LET sorted == SortedReverse(TableNames)
        ascending == [i \in 1..Len(sorted) |-> sorted[Len(sorted) + 1 - i]]
    IN  SelectSeq(ascending,
                  LAMBDA t : ~(t \notin Reflected) /\ GetModelClass(t) # "None")

\* get_model_metadata: the tables of the registry in reverse name order, those
\* absent from the live schema and those without a model class skipped.  The
\* exclude_list test is commented out in the source.
GetModelMetadata ==
    SelectSeq(SortedReverse(TableNames),
              LAMBDA t : ~(t \notin Reflected) /\ GetModelClass(t) # "None")

----------------------------------------------------------------------------
\* The type registry.

\* the registry without its entry for Interval
TypeMaps_NoInterval == << "DateTime", "Boolean", "Integer", "Float", "UUID", "String" >>

\* data_type_mapper.type_maps, in order
TypeMaps == << "DateTime", "Boolean", "Integer", "Float", "Interval", "UUID",
               "String" >>

\* isinstance(column.type, cls): a column type is an instance of its own
\* class only; no column type is an instance of the builtin int.
IsInstance(type, cls) == type = cls

\* data_type.fake_type of the entry for cls, from the random draws of one call
\* of get_data_type_mapper
FakeType(cls, draws) ==
    CASE cls = "DateTime" -> <<"datetime", 0>>
      [] cls = "Boolean"  -> <<"bool", draws.boolean>>
      [] cls = "Integer"  -> <<"int", draws.random_int>>
      [] cls = "Float"    -> <<"float", 0>>
      [] cls = "Interval" -> <<"interval", 0>>
      [] cls = "UUID"     -> <<"uuid", draws.uuid>>
      [] cls = "String"   -> <<"str", 0>>

\* the loop over type_maps of generate_fake_row_data: every matching entry
\* assigns, a later one over an earlier one.  acc is the row being built and,
\* for every column, the statement that assigned its value last.
RECURSIVE ApplyTypeMaps(_, _, _, _)
ApplyTypeMaps(i, column, draws, acc) ==
    IF i > Len(TypeMaps) THEN acc
    ELSE ApplyTypeMaps(i + 1, column, draws,
            IF IsInstance(column.type, TypeMaps[i])
            THEN [row_data |-> Put(acc.row_data, column.name,
                                   FakeType(TypeMaps[i], draws)),
                  origin |-> Put(acc.origin, column.name, "registry")]
            ELSE acc)

\* does the unique-identifier primary-key override apply to the column
OverridesUuid(column) == column.primary_key /\ IsInstance(column.type, "UUID")

\* does the integer primary-key override apply to the column
OverridesInt(column) == column.primary_key /\ IsInstance(column.type, "int")

\* "ensure pk is unique"
PrimaryKeyOverride(column, draws, acc) ==
    LET a1 == IF OverridesUuid(column)
              THEN [row_data |-> Put(acc.row_data, column.name,
                                     <<"uuid", draws.pk_uuid>>),
                    origin |-> Put(acc.origin, column.name, "pk_uuid")]
              ELSE acc
    IN  IF OverridesInt(column)
        THEN [row_data |-> Put(a1.row_data, column.name,
                               <<"int", draws.pk_int1 * draws.pk_int2>>),
              origin |-> Put(a1.origin, column.name, "pk_int")]
        ELSE a1

----------------------------------------------------------------------------
\* The database.

\* get_table_data: the values of a column in the committed rows of a table
GetTableData(table, column) ==
    { Get(db[table][i], column) : i \in 1..Len(db[table]) }

PrimaryKeyColumns(t) ==
    { Columns(t)[i].name : i \in { j \in 1..Len(Columns(t)) : Columns(t)[j].primary_key } }

PrimaryKey(t, row) == [c \in PrimaryKeyColumns(t) |-> Get(row, c)]

\* the row has a null or an already used primary key
UniqueViolation(d, t, row) ==
    \/ \E c \in PrimaryKeyColumns(t) : Get(row, c) = NULL
    \/ \E i \in 1..Len(d[t]) : PrimaryKey(t, d[t][i]) = PrimaryKey(t, row)

\* the row has a foreign-key value that no committed row of the target has
ForeignKeyViolation(d, t, row) ==
    \E i \in 1..Len(Columns(t)) :
        \E j \in 1..Len(Columns(t)[i].foreign_keys) :
            LET fk == Columns(t)[i].foreign_keys[j]
                v  == Get(row, Columns(t)[i].name)
            IN  /\ v # NULL
                /\ \A k \in 1..Len(d[fk.table]) : Get(d[fk.table][k], fk.column) # v

\* a committed row that has the given value in every given column
Matches(r, row_data) == \A c \in DOMAIN row_data : Get(r, c) = row_data[c]

\* model.get_or_create(model, **row_data): the row that matches row_data when
\* there is one, otherwise a new row added to the session and flushed, which
\* raises IntegrityError when a constraint rejects it.
GetOrCreate(d, t, row_data) ==
    IF \E i \in 1..Len(d[t]) : Matches(d[t][i], row_data)
    THEN [session |-> d, created |-> FALSE, raised |-> FALSE]
    ELSE [session |-> [d EXCEPT ![t] = Append(@, row_data)],
          created |-> TRUE,
          raised  |-> UniqueViolation(d, t, row_data)
                      \/ ForeignKeyViolation(d, t, row_data)]

\* save_model without the rollback: the rejected row stays
SaveModel_NoRollback(d, t, row_data) ==
    LET g == GetOrCreate(d, t, row_data)
    IN  [db |-> g.session,
         result |-> IF g.raised THEN "rejected"
                    ELSE IF g.created THEN "committed" ELSE "exists"]

\* save_model without the commit of line 41: the rollback after a rejected
\* insert undoes every row the session has added
SaveModel_RollbackAll(d, t, row_data) ==
    LET g == GetOrCreate(d, t, row_data)
    IN  IF g.raised
        THEN [db |-> [x \in DOMAIN d |-> <<>>], result |-> "rejected"]
        ELSE [db |-> g.session,
              result |-> IF g.created THEN "committed" ELSE "exists"]

\* save_model: get_or_create and commit; on IntegrityError roll back to the
\* last commit.  Nothing is raised to the caller.
SaveModel(d, t, row_data) ==
    LET g == GetOrCreate(d, t, row_data)
    IN  IF g.raised
        THEN [db |-> d, result |-> "rejected"]
        ELSE [db |-> g.session,
              result |-> IF g.created THEN "committed" ELSE "exists"]

\* every foreign-key column of the row holds a value of a committed target row
ReferencesCommitted(d, t, row) ==
    \A i \in 1..Len(Columns(t)) :
        \A j \in 1..Len(Columns(t)[i].foreign_keys) :
            LET fk == Columns(t)[i].foreign_keys[j]
            IN  \E k \in 1..Len(d[fk.table]) :
                    Get(d[fk.table][k], fk.column) = Get(row, Columns(t)[i].name)

\* the record of one save_model call
Attempt(t, row_data, result, by) ==
    [table |-> t, row_data |-> row_data, result |-> result, by |-> by,
     turn |-> ti, iteration |-> iter,
     references_committed |-> ReferencesCommitted(db, t, row_data)]

----------------------------------------------------------------------------
\* The state after DataSeeder(number_of_records, exclude_list) is constructed
\* on a database whose tables are empty.

ExcludeLists == { {}, {"audit_log"} }

Init ==
    /\ scenario \in 1..Len(Schemas)
    /\ number_of_records \in 1..MaxRecords
    /\ exclude_list \in { e \in ExcludeLists : e \subseteq TableNames }
    /\ pc = "init"
    /\ err = ""
    /\ todo = <<>>
    /\ ti = 1
    /\ iter = 0
    /\ stack = <<>>
    /\ db = [t \in TableNames |-> <<>>]
    /\ log = <<>>
    /\ notices = <<>>
    /\ next_uuid = 1

\* a new call generate_fake_row_data(table): row_data = {} and the loop over
\* the columns at its first column.  ci is the column the loop is at, fi the
\* foreign key of that column the inner loop is at (0: the column's type is
\* still to be looked up).
NewFrame(table) ==
    [table |-> table, ci |-> 1, fi |-> 0, row_data |-> EmptyRow, origin |-> EmptyRow]

Top == stack[Len(stack)]

\* the column the innermost call is at
TopColumn == Columns(Top.table)[Top.ci]

\* the innermost call has gone through all the columns and returns row_data
AtReturn == stack # <<>> /\ Top.ci > Len(Columns(Top.table))

\* the innermost call is at a foreign key of its column
AtForeignKey == stack # <<>> /\ ~AtReturn /\ Top.fi >= 1

\* the foreign key the innermost call is at
TopForeignKey == TopColumn.foreign_keys[Top.fi]

\* the loops over the foreign keys and the columns without their advance
NextForeignKey_Stay(f) == f

\* the frame after its current foreign key is done: the next foreign key of
\* the column, or the next column
NextForeignKey(f) ==
    IF f.fi >= Len(Columns(f.table)[f.ci].foreign_keys)
    THEN [f EXCEPT !.ci = @ + 1, !.fi = 0]
    ELSE [f EXCEPT !.fi = @ + 1]

ReplaceTop(f) == [stack EXCEPT ![Len(stack)] = f]

\* an exception leaves generate(): every call is unwound and the run ends
Raise(exception) ==
    /\ pc' = "error"
    /\ err' = exception
    /\ stack' = <<>>
    /\ UNCHANGED <<scenario, number_of_records, exclude_list, todo, ti, iter,
                   db, log, notices, next_uuid>>

----------------------------------------------------------------------------
\* generate(): list(self.get_model_metadata())
GenerateStart ==
    /\ pc = "init"
    /\ todo' = GetModelMetadata
    /\ pc' = "loop"
    /\ UNCHANGED <<scenario, number_of_records, exclude_list, err, ti, iter,
                   stack, db, log, notices, next_uuid>>

\* generate(): the next iteration of range(number_of_records) calls
\* generate_fake_row_data(table)
DriverCall ==
    /\ pc = "loop"
    /\ ti <= Len(todo)
    /\ iter < number_of_records
    /\ stack = <<>>
    /\ stack' = << NewFrame(todo[ti]) >>
    /\ UNCHANGED <<scenario, number_of_records, exclude_list, pc, err, todo, ti,
                   iter, db, log, notices, next_uuid>>

\* generate_fake_row_data: one column's value from the type registry and the
\* primary-key override.  The override's two random integers are drawn only
\* when the override applies.
ColumnStep ==
    /\ pc = "loop"
    /\ stack # <<>>
    /\ ~AtReturn
    /\ Top.fi = 0
    /\ \E b \in Booleans, n \in RandomInts,
          n1 \in (IF OverridesInt(TopColumn) THEN RandomInts ELSE {0}),
          n2 \in (IF OverridesInt(TopColumn) THEN RandomInts ELSE {0}) :
        LET column == TopColumn
            draws  == [uuid |-> next_uuid, boolean |-> b, random_int |-> n,
                       pk_uuid |-> next_uuid + 1, pk_int1 |-> n1, pk_int2 |-> n2]
            acc    == PrimaryKeyOverride(column, draws,
                        ApplyTypeMaps(1, column, draws,
                            [row_data |-> Top.row_data, origin |-> Top.origin]))
            f      == [Top EXCEPT !.row_data = acc.row_data, !.origin = acc.origin]
        IN  /\ stack' = ReplaceTop(IF column.foreign_keys = <<>>
                                   THEN [f EXCEPT !.ci = @ + 1]
                                   ELSE [f EXCEPT !.fi = 1])
            /\ next_uuid' = next_uuid + 1 + (IF OverridesUuid(column) THEN 1 ELSE 0)
    /\ UNCHANGED <<scenario, number_of_records, exclude_list, pc, err, todo, ti,
                   iter, db, log, notices>>

\* get_table_data on a table without a model class: getattr(None, column)
FkMissingModel ==
    /\ pc = "loop"
    /\ AtForeignKey
    /\ GetModelClass(TopForeignKey.table) = "None"
    /\ Raise("AttributeError")

\* the target has records: link fk to an existing record
FkExisting ==
    /\ pc = "loop"
    /\ AtForeignKey
    /\ GetModelClass(TopForeignKey.table) # "None"
    /\ LET fk_records == GetTableData(TopForeignKey.table, TopForeignKey.column)
       IN  /\ fk_records # {}
           /\ \E record \in fk_records :
                stack' = ReplaceTop(NextForeignKey(
                    [Top EXCEPT !.row_data = Put(@, TopColumn.name, record),
                                !.origin = Put(@, TopColumn.name, "fk_existing")]))
    /\ UNCHANGED <<scenario, number_of_records, exclude_list, pc, err, todo, ti,
                   iter, db, log, notices, next_uuid>>

\* the recursive call without the test that the target has no records
FkCreate_NoCheck ==
    /\ pc = "loop"
    /\ AtForeignKey
    /\ GetModelClass(TopForeignKey.table) # "None"
    /\ Len(stack) < RecursionLimit
    /\ stack' = Append(stack, NewFrame(TopForeignKey.table))
    /\ UNCHANGED <<scenario, number_of_records, exclude_list, pc, err, todo, ti,
                   iter, db, log, notices, next_uuid>>

\* the target has no records: generate_fake_row_data(fk_table)
FkCreate ==
    /\ pc = "loop"
    /\ AtForeignKey
    /\ GetModelClass(TopForeignKey.table) # "None"
    /\ GetTableData(TopForeignKey.table, TopForeignKey.column) = {}
    /\ Len(stack) < RecursionLimit
    /\ stack' = Append(stack, NewFrame(TopForeignKey.table))
    /\ UNCHANGED <<scenario, number_of_records, exclude_list, pc, err, todo, ti,
                   iter, db, log, notices, next_uuid>>

\* the same call when the calls are nested as deep as the interpreter allows
FkRecursionError ==
    /\ pc = "loop"
    /\ AtForeignKey
    /\ GetModelClass(TopForeignKey.table) # "None"
    /\ GetTableData(TopForeignKey.table, TopForeignKey.column) = {}
    /\ Len(stack) >= RecursionLimit
    /\ Raise("RecursionError")

\* the return of the recursive call without the save_model of line 155
ResolverSave_NoSave ==
    /\ pc = "loop"
    /\ AtReturn
    /\ Len(stack) >= 2
    /\ stack' = [SubSeq(stack, 1, Len(stack) - 1)
                    EXCEPT ![Len(stack) - 1] = NextForeignKey(stack[Len(stack) - 1])]
    /\ UNCHANGED <<scenario, number_of_records, exclude_list, pc, err, todo, ti,
                   iter, db, log, notices, next_uuid>>

\* the recursive call returns new_data and the resolver saves it; row_data of
\* the caller is not assigned
ResolverSave ==
    /\ pc = "loop"
    /\ AtReturn
    /\ Len(stack) >= 2
    /\ LET saved  == SaveModel(db, Top.table, Top.row_data)
           caller == stack[Len(stack) - 1]
       IN  /\ db' = saved.db
           /\ log' = Append(log, Attempt(Top.table, Top.row_data, saved.result,
                                         "resolver"))
           /\ stack' = [SubSeq(stack, 1, Len(stack) - 1)
                            EXCEPT ![Len(stack) - 1] = NextForeignKey(caller)]
    /\ UNCHANGED <<scenario, number_of_records, exclude_list, pc, err, todo, ti,
                   iter, notices, next_uuid>>

\* the driver's save with a retry: a rejected insert does not count
DriverSave_Retry ==
    /\ pc = "loop"
    /\ AtReturn
    /\ Len(stack) = 1
    /\ LET saved == SaveModel(db, Top.table, Top.row_data)
       IN  /\ db' = saved.db
           /\ log' = Append(log, Attempt(Top.table, Top.row_data, saved.result,
                                         "driver"))
           /\ iter' = IF saved.result = "rejected" THEN iter ELSE iter + 1
    /\ stack' = <<>>
    /\ UNCHANGED <<scenario, number_of_records, exclude_list, pc, err, todo, ti,
                   notices, next_uuid>>

\* generate(): the call returns row_data and the driver saves it
DriverSave ==
    /\ pc = "loop"
    /\ AtReturn
    /\ Len(stack) = 1
    /\ LET saved == SaveModel(db, Top.table, Top.row_data)
       IN  /\ db' = saved.db
           /\ log' = Append(log, Attempt(Top.table, Top.row_data, saved.result,
                                         "driver"))
    /\ stack' = <<>>
    /\ iter' = iter + 1
    /\ UNCHANGED <<scenario, number_of_records, exclude_list, pc, err, todo, ti,
                   notices, next_uuid>>

\* the print with the number of rows the driver committed for the table
DriverPrint_Committed ==
    /\ pc = "loop"
    /\ ti <= Len(todo)
    /\ iter = number_of_records
    /\ stack = <<>>
    /\ notices' = Append(notices,
            [model |-> todo[ti],
             records |-> Cardinality({ i \in 1..Len(log) :
                            /\ log[i].by = "driver"
                            /\ log[i].table = todo[ti]
                            /\ log[i].result = "committed" })])
    /\ ti' = ti + 1
    /\ iter' = 0
    /\ UNCHANGED <<scenario, number_of_records, exclude_list, pc, err, todo,
                   stack, db, log, next_uuid>>

\* generate(): after the last iteration for a table, print and go to the next
DriverPrint ==
    /\ pc = "loop"
    /\ ti <= Len(todo)
    /\ iter = number_of_records
    /\ stack = <<>>
    /\ notices' = Append(notices, [model |-> todo[ti], records |-> number_of_records])
    /\ ti' = ti + 1
    /\ iter' = 0
    /\ UNCHANGED <<scenario, number_of_records, exclude_list, pc, err, todo,
                   stack, db, log, next_uuid>>

\* generate() returns
GenerateReturn ==
    /\ pc = "loop"
    /\ ti > Len(todo)
    /\ pc' = "done"
    /\ UNCHANGED <<scenario, number_of_records, exclude_list, err, todo, ti, iter,
                   stack, db, log, notices, next_uuid>>

Next ==
    \/ GenerateStart
    \/ DriverCall
    \/ ColumnStep
    \/ FkMissingModel
    \/ FkExisting
    \/ FkCreate
    \/ FkRecursionError
    \/ ResolverSave
    \/ DriverSave
    \/ DriverPrint
    \/ GenerateReturn

Spec == Init /\ [][Next]_vars

\* the run is sequential and nothing stops it: every enabled step is taken
FairSpec == Spec /\ WF_vars(Next)

----------------------------------------------------------------------------
\* Properties.

\* the foreign keys of a table: the column, the target table and its column
ForeignKeysOf(t) ==
    UNION { { [column |-> Columns(t)[i].name,
               table  |-> Columns(t)[i].foreign_keys[j].table,
               target |-> Columns(t)[i].foreign_keys[j].column] :
              j \in 1..Len(Columns(t)[i].foreign_keys) } :
            i \in 1..Len(Columns(t)) }

\* the values committed in a column of a table
Committed(t, c) == { Get(db[t][k], c) : k \in 1..Len(db[t]) }

\* the save_model calls made during the driver's turn for a table
TurnAttempts(t) == SelectSeq(log, LAMBDA a : todo[a.turn] = t)

\* C1: every row that row synthesis returns holds, in every foreign-key
\* column, a value that the resolver took from the target column or the key of
\* the target row it created: the column was assigned by the resolver and its
\* value is committed in the target column.
C1_ForeignKeyFromTarget ==
    AtReturn =>
        \A k \in ForeignKeysOf(Top.table) :
            /\ k.column \in DOMAIN Top.origin
            /\ Top.origin[k.column] \in {"fk_existing", "fk_created"}
            /\ Get(Top.row_data, k.column) \in Committed(k.table, k.target)

C3_ReferencedRowCommitted ==
    \A i \in 1..Len(log) : log[i].references_committed

\* C4: no table of exclude_list is among the driver's tables, is synthesized
\* for, has a save_model call or gets a row.
C4_ExcludedUntouched ==
    \A t \in exclude_list :
        /\ \A i \in 1..Len(todo) : todo[i] # t
        /\ \A i \in 1..Len(stack) : stack[i].table # t
        /\ \A i \in 1..Len(log) : log[i].table # t
        /\ db[t] = <<>>

\* C5: the resolver never starts row synthesis for a table that a call in
\* progress is already synthesizing a row for.
C5_NoReentry ==
    \A i, j \in 1..Len(stack) : i # j => stack[i].table # stack[j].table

\* the number of committed rows of a table equal to the row data
Copies(d, t, row_data) == Cardinality({ k \in 1..Len(d[t]) : d[t][k] = row_data })

\* the step is a save_model call
Saves == Len(log') = Len(log) + 1

\* the save_model call of the step
Saved == log'[Len(log')]

\* C6: a save_model call for row data that an earlier save_model call has
\* persisted adds no row and leaves exactly one committed row of that data; a
\* save_model call that is rejected is rolled back; and after any save_model
\* call the run goes on, the driver with its next iteration.
C6_SaveTwiceOneRow ==
    [][ Saves =>
          /\ ( (\E i \in 1..Len(log) :
                    /\ log[i].table = Saved.table
                    /\ log[i].row_data = Saved.row_data
                    /\ log[i].result \in {"committed", "exists"})
               => /\ db' = db
                  /\ Saved.result = "exists"
                  /\ Copies(db', Saved.table, Saved.row_data) = 1 )
          /\ (Saved.result = "rejected" => db' = db)
          /\ pc' = "loop" /\ err' = ""
          /\ (Saved.by = "driver" => iter' = iter + 1)
      ]_vars

\* the same row data was saved twice, committed the first time
C6_Witness ==
    \E i, j \in 1..Len(log) :
        /\ i < j
        /\ log[i].table = log[j].table
        /\ log[i].row_data = log[j].row_data
        /\ log[i].result = "committed"
        /\ log[j].result = "exists"

\* the save_model calls the driver made for a table
DriverAttempts(t) == SelectSeq(log, LAMBDA a : a.by = "driver" /\ a.table = t)

\* the rows the driver committed for a table
DriverCommitted(t) == SelectSeq(DriverAttempts(t), LAMBDA a : a.result = "committed")

\* the table has no foreign keys and a single unique-identifier primary key
PlainUuidTable(t) ==
    /\ ForeignKeysOf(t) = {}
    /\ \E i \in 1..Len(Columns(t)) :
        /\ Columns(t)[i].primary_key /\ Columns(t)[i].type = "UUID"
        /\ PrimaryKeyColumns(t) = {Columns(t)[i].name}

\* C7: for every table whose turn is over the driver has made exactly
\* number_of_records save_model calls (and iter calls for the table it is at),
\* so it has committed at most number_of_records rows; for a table without
\* foreign keys and with a unique-identifier primary key it has committed
\* number_of_records rows, with pairwise distinct primary keys.
C7_ExactlyRecordCountIterations ==
    \A k \in 1..Len(todo) :
        LET t == todo[k]
            made == DriverAttempts(t)
            rows == DriverCommitted(t)
        IN  /\ k < ti => Len(made) = number_of_records
            /\ (k = ti /\ pc = "loop") => Len(made) = iter
            /\ k > ti => Len(made) = 0
            /\ Len(rows) <= number_of_records
            /\ (k < ti /\ PlainUuidTable(t)) =>
                /\ Len(rows) = number_of_records
                /\ \A a, b \in 1..Len(rows) :
                      a # b => PrimaryKey(t, rows[a].row_data)
                                  # PrimaryKey(t, rows[b].row_data)

\* the driver's turn for users (no foreign keys, a unique-identifier primary
\* key) is over and has committed more than one row
C7_Witness ==
    /\ scenario = 1
    /\ ti > 1
    /\ todo[1] = "users"
    /\ PlainUuidTable("users")
    /\ number_of_records > 1
    /\ Len(DriverCommitted("users")) = number_of_records

\* the declared types the type registry supports
SupportedTypes == {"DateTime", "Boolean", "Integer", "Float", "Interval", "UUID",
                   "String"}

\* C8: a row that row synthesis returns has an entry for every column of a
\* supported type and none for a column of an unsupported type without a
\* foreign key; row synthesis for a schema without foreign keys raises nothing.
C8_SupportedColumnsPresent ==
    /\ AtReturn =>
        \A i \in 1..Len(Columns(Top.table)) :
            LET column == Columns(Top.table)[i]
            IN  /\ column.type \in SupportedTypes
                    => column.name \in DOMAIN Top.row_data
                /\ (column.type \notin SupportedTypes /\ column.foreign_keys = <<>>)
                    => column.name \notin DOMAIN Top.row_data
    /\ (\A t \in TableNames : ForeignKeysOf(t) = {}) => err = ""

\* row synthesis returns a row for users, which has a column of every
\* supported type and one of an unsupported type
C8_Witness ==
    /\ AtReturn
    /\ Top.table = "users"
    /\ { Columns("users")[i].type : i \in 1..Len(Columns("users")) }
            = SupportedTypes \cup {"Other"}
    /\ DOMAIN Top.row_data = {"id", "name", "active", "age", "joined", "score", "ttl"}

\* C9: in a row that row synthesis returns, a primary-key column of integer
\* type without a foreign key was assigned by the primary-key override (the
\* product of two random integers), not by the type registry.
C9_IntegerKeyIsProduct ==
    AtReturn =>
        \A i \in 1..Len(Columns(Top.table)) :
            LET column == Columns(Top.table)[i]
            IN  ( /\ column.primary_key
                  /\ column.type = "Integer"
                  /\ column.foreign_keys = <<>> )
                => /\ column.name \in DOMAIN Top.origin
                   /\ Top.origin[column.name] = "pk_int"

\* C10: resolving a foreign key whose target table has a committed row makes
\* no save_model call, starts no row synthesis and gives the column one of the
\* committed values of the target column; row synthesis for a target starts
\* only when the target table is empty.
C10_ReusePreferred ==
    [][ /\ ( /\ AtForeignKey
             /\ db[TopForeignKey.table] # <<>> )
           => /\ log' = log
              /\ db' = db
              /\ Len(stack') = Len(stack)
              /\ Get(stack'[Len(stack)].row_data, TopColumn.name)
                    \in Committed(TopForeignKey.table, TopForeignKey.column)
        /\ ( stack # <<>> /\ Len(stack') > Len(stack) )
           => db[stack'[Len(stack')].table] = <<>>
      ]_vars

\* a foreign key was given a committed value of its target
C10_Witness ==
    \E i \in 1..Len(stack) :
        \E k \in ForeignKeysOf(stack[i].table) :
            /\ k.column \in DOMAIN stack[i].origin
            /\ stack[i].origin[k.column] = "fk_existing"
            /\ stack[i].row_data[k.column] \in Committed(k.table, k.target)

\* C11: once the driver has looked up the model classes of its tables, a
\* table of the live schema without a model class means that a lookup failure
\* was raised; and a table without a model class never has a row synthesized,
\* a save_model call or a committed row.
C11_LookupFailurePropagates ==
    /\ pc # "init" =>
        \A t \in TableNames \cap Reflected :
            GetModelClass(t) = "None" => err # ""
    /\ \A t \in TableNames :
        GetModelClass(t) = "None" =>
            /\ db[t] = <<>>
            /\ \A i \in 1..Len(log) : log[i].table # t
            /\ \A i \in 1..Len(stack) : stack[i].table # t

\* C12: the notices are one per table whose turn is over, in the driver's
\* order; a table has its notice only when the driver has made all its
\* number_of_records save_model calls for it, and the notice reports
\* number_of_records whatever the number of rows committed.
C12_OneNoticePerFinishedTable ==
    /\ Len(notices) = ti - 1
    /\ \A k \in 1..Len(notices) :
        /\ notices[k].model = todo[k]
        /\ notices[k].records = number_of_records
        /\ Len(DriverAttempts(todo[k])) = number_of_records
    /\ \A k \in 1..Len(todo) :
        Cardinality({ i \in 1..Len(notices) : notices[i].model = todo[k] }) <= 1

\* a notice was printed for a table for which every insert of the driver was
\* rejected
C12_Witness ==
    \E k \in 1..Len(notices) :
        /\ notices[k].records = number_of_records
        /\ Len(DriverAttempts(notices[k].model)) = number_of_records
        /\ \A i \in 1..Len(log) :
            (log[i].by = "driver" /\ log[i].table = notices[k].model)
                => log[i].result = "rejected"

\* C13: the driver's tables are in descending name order; the save_model
\* calls are made turn after turn and, within a turn, iteration after
\* iteration; the driver's call ends its iteration, after the resolver's calls
\* of that iteration; the driver saves into the table of its turn only, so a
\* call into another table is the resolver's; and a row is synthesized only
\* for the table of the current turn, within an iteration of it.
C13_TableAfterTableRowAfterRow ==
    /\ \A a, b \in 1..Len(todo) : a < b => Rank(todo[a]) > Rank(todo[b])
    /\ \A i, j \in 1..Len(log) :
        i < j =>
            /\ \/ log[i].turn < log[j].turn
               \/ /\ log[i].turn = log[j].turn
                  /\ log[i].iteration <= log[j].iteration
            /\ (log[i].turn = log[j].turn /\ log[i].iteration = log[j].iteration)
                => log[i].by = "resolver"
    /\ \A i \in 1..Len(log) :
        /\ log[i].turn \in 1..Len(todo)
        /\ log[i].iteration \in 0..(number_of_records - 1)
        /\ log[i].table # todo[log[i].turn] => log[i].by = "resolver"
        /\ (log[i].turn < ti \/ log[i].iteration < iter)
            => \E j \in i..Len(log) :
                /\ log[j].by = "driver"
                /\ log[j].turn = log[i].turn
                /\ log[j].iteration = log[i].iteration
    /\ stack # <<>> =>
        /\ ti \in 1..Len(todo)
        /\ stack[1].table = todo[ti]
        /\ iter < number_of_records

\* a run over two tables and more than one record is over, and the resolver
\* has saved into a table outside that table's turn
C13_Witness ==
    /\ pc = "done"
    /\ Len(todo) >= 2
    /\ number_of_records >= 2
    /\ \E i \in 1..Len(log) :
        /\ log[i].by = "resolver"
        /\ log[i].table # todo[log[i].turn]
    /\ \E i \in 1..Len(log) : log[i].turn = 2 /\ log[i].iteration = 1

\* C14: a save_model call that is rejected leaves every table as it was: the
\* rejected row is in no table, and every row that an earlier save_model call
\* committed is still committed, the target rows that the resolver committed
\* for the rejected row among them.
C14_RollbackUndoesOnlyTheRejectedRow ==
    [][ (Saves /\ Saved.result = "rejected") =>
          /\ \A t \in TableNames : db'[t] = db[t]
          /\ Copies(db', Saved.table, Saved.row_data) = 0
          /\ \A i \in 1..Len(log) :
                log[i].result = "committed"
                    => Copies(db', log[i].table, log[i].row_data) = 1
      ]_vars

\* the driver's insert was rejected after the resolver had committed a target
\* row for the same row, and the target row is still committed
C14_Witness ==
    \E i, j \in 1..Len(log) :
        /\ i < j
        /\ log[i].by = "resolver" /\ log[i].result = "committed"
        /\ log[j].by = "driver" /\ log[j].result = "rejected"
        /\ log[i].turn = log[j].turn /\ log[i].iteration = log[j].iteration
        /\ Copies(db, log[i].table, log[i].row_data) = 1
        /\ Copies(db, log[j].table, log[j].row_data) = 0

\* the tables that the foreign keys of a table reference
Targets(t) == { k.table : k \in ForeignKeysOf(t) }

\* the tables reached from the tables S along at most n more foreign keys
RECURSIVE ReachedFrom(_, _)
ReachedFrom(S, n) ==
    IF n = 0 THEN S
    ELSE ReachedFrom(S \cup UNION { Targets(t) : t \in S }, n - 1)

\* the foreign-key graph of the schema has no cycle
Acyclic ==
    \A t \in TableNames : t \notin ReachedFrom(Targets(t), Cardinality(TableNames))

\* the number of foreign-key paths that leave a table of an acyclic schema
RECURSIVE PathsFrom(_)
RECURSIVE SumOfPaths(_)
SumOfPaths(K) ==
    IF K = {} THEN 0
    ELSE LET k == CHOOSE x \in K : TRUE
         IN  1 + PathsFrom(k.table) + SumOfPaths(K \ {k})
PathsFrom(t) == SumOfPaths(ForeignKeysOf(t))

\* the recursive calls of row synthesis made for the row of an iteration that
\* have returned
ResolverCalls(turn, iteration) ==
    Cardinality({ i \in 1..Len(log) :
        /\ log[i].by = "resolver"
        /\ log[i].turn = turn
        /\ log[i].iteration = iteration })

\* the run is over: generate() has returned or an exception has ended it
Terminated == pc \in {"done", "error"}

\* C15: on a schema whose foreign-key graph is acyclic, the recursion is never
\* deeper than the number of tables and never hits the recursion limit, the
\* recursive calls made for one row are at most the foreign-key paths that
\* leave its table, the driver makes at most number_of_records iterations for
\* a table, and the run ends.
C15_AcyclicRunTerminates ==
    /\ [](Acyclic =>
            /\ err # "RecursionError"
            /\ Len(stack) <= Cardinality(TableNames)
            /\ \A k \in 1..Len(todo) :
                /\ Len(DriverAttempts(todo[k])) <= number_of_records
                /\ \A n \in 0..(number_of_records - 1) :
                    ResolverCalls(k, n)
                        + (IF k = ti /\ n = iter /\ stack # <<>>
                           THEN Len(stack) - 1 ELSE 0)
                      <= PathsFrom(todo[k]))
    /\ (Acyclic ~> Terminated)

\* the run over the chain orders -> customers -> accounts is over, with more
\* than one record, and the row of one iteration took as many recursive calls
\* as there are foreign-key paths from orders
C15_Witness ==
    /\ pc = "done"
    /\ Acyclic
    /\ number_of_records > 1
    /\ \E k \in 1..Len(todo) :
        /\ PathsFrom(todo[k]) = 2
        /\ ResolverCalls(k, 0) = 2

\* the save_model calls made for the row of an iteration, in order
IterationAttempts(turn, iteration) ==
    SelectSeq(log, LAMBDA a : a.turn = turn /\ a.iteration = iteration)

\* A references B only, B references C only, C references nothing
IsChain(A, B, C) ==
    /\ A # B /\ B # C /\ A # C
    /\ Targets(A) = {B}
    /\ Targets(B) = {C}
    /\ Targets(C) = {}

\* C16: A references B references C and the three tables are empty when the
\* driver synthesizes its first row, a row of A: the save_model calls for that
\* row are, in this order, the resolver's for the row of C, the resolver's for
\* the row of B and the driver's for the row of A, one call each.
C16_DeepestDependencyFirst ==
    \A A, B, C \in TableNames :
        (IsChain(A, B, C) /\ todo # <<>> /\ todo[1] = A) =>
            LET att == IterationAttempts(1, 0)
                order == << [table |-> C, by |-> "resolver"],
                            [table |-> B, by |-> "resolver"],
                            [table |-> A, by |-> "driver"] >>
            IN  /\ Len(att) <= 3
                /\ \A i \in 1..Len(att) :
                    /\ att[i].table = order[i].table
                    /\ att[i].by = order[i].by
                /\ (ti > 1 \/ iter >= 1) => Len(att) = 3

\* the first row of orders in the chain orders -> customers -> accounts has
\* been synthesized and its three save_model calls made
C16_Witness ==
    /\ TableNames = {"orders", "customers", "accounts"}
    /\ IsChain("orders", "customers", "accounts")
    /\ todo # <<>> /\ todo[1] = "orders"
    /\ iter >= 1
    /\ Len(IterationAttempts(1, 0)) = 3
    /\ IterationAttempts(1, 0)[1].table = "accounts"
    /\ IterationAttempts(1, 0)[2].table = "customers"
    /\ IterationAttempts(1, 0)[3].table = "orders"

====
